---- MODULE Spec2Model ----
(***************************************************************************)
(* thousands-rs: inserting group separators into the first digit run of a  *)
(* displayed value.                                                        *)
(*                                                                         *)
(* A Rust `str` is modelled as a sequence of characters; every character   *)
(* has a UTF-8 width, so that byte offsets and character indices differ as *)
(* soon as a multi-byte character occurs.  Slicing by byte offsets aborts  *)
(* (panics) when an offset is out of range or not on a character boundary. *)
(* A panicking call is the value Panic; a returning call is Ok(...).       *)
(***************************************************************************)
EXTENDS Integers, Sequences, FiniteSets, TLC

VARIABLES input, policy, pc, span, result, again, strResult, grouped,
          it, itBefore, yielded

vars == <<input, policy, pc, span, result, again, strResult, grouped,
          it, itBefore, yielded>>

---------------------------------------------------------------------------
(* Bounds of the checked instance                                          *)

\* longest arbitrary text
MaxLen == 3
\* longest digit run (framed by an ASCII sign and fraction)
MaxRun == 7
\* largest group size, and longest group list, of the policies
MaxGroup == 3
MaxGroups == 2
\* calls of next() made after the first None
MaxNone == 2

---------------------------------------------------------------------------
(* Characters and strings                                                  *)

EAcute == "U+00E9"
Smiley == "U+1F64F"

\* lib.rs digits::ASCII_DECIMAL
ASCII_DECIMAL == {"0", "1", "2", "3", "4", "5", "6", "7", "8", "9"}

\* char::len_utf8 of the characters used
len_utf8(c) == IF c = EAcute THEN 2 ELSE IF c = Smiley THEN 4 ELSE 1

\* str::len: the length in bytes
RECURSIVE str_len(_)
str_len(s) == IF s = <<>> THEN 0 ELSE len_utf8(Head(s)) + str_len(Tail(s))

\* byte offset at which the (0-based) k-th character starts
byte_offset(s, k) == str_len(SubSeq(s, 1, k))

is_char_boundary(s, i) == \E k \in 0 .. Len(s) : byte_offset(s, k) = i

Panic == [panic |-> TRUE, s |-> <<>>]
Ok(s) == [panic |-> FALSE, s |-> s]

\* &s[a .. b] with byte offsets a, b: the characters between them; callers
\* check bounds and boundaries first (see slices_ok)
slice(s, a, b) ==
    LET ka == CHOOSE k \in 0 .. Len(s) : byte_offset(s, k) = a
        kb == CHOOSE k \in 0 .. Len(s) : byte_offset(s, k) = b
    IN  SubSeq(s, ka + 1, kb)

\* whether &s[.. a], &s[a .. b], &s[b ..] all return
slices_ok(s, a, b) ==
    /\ a <= b
    /\ b <= str_len(s)
    /\ is_char_boundary(s, a)
    /\ is_char_boundary(s, b)

\* chars().rev()
RECURSIVE rev(_)
rev(s) == IF s = <<>> THEN <<>> ELSE Append(rev(Tail(s)), Head(s))

---------------------------------------------------------------------------
(* lib.rs: find_span, insert_separator_rev, separate_by_policy             *)

NoSpan == [panic |-> TRUE, before |-> <<>>, number |-> <<>>, after |-> <<>>]
Span(b, n, a) == [panic |-> FALSE, before |-> b, number |-> n, after |-> a]

\* 1-based position of the first character of s in D, 0 when there is none
first_digit(s, D) ==
    IF \E i \in 1 .. Len(s) : s[i] \in D
    THEN CHOOSE i \in 1 .. Len(s) :
            s[i] \in D /\ \A j \in 1 .. i - 1 : s[j] \notin D
    ELSE 0

\* 1-based position of the first character after position f that is not
\* in D, 0 when there is none
first_non_digit_after(s, D, f) ==
    IF \E i \in f + 1 .. Len(s) : s[i] \notin D
    THEN CHOOSE i \in f + 1 .. Len(s) :
            s[i] \notin D /\ \A j \in f + 1 .. i - 1 : s[j] \in D
    ELSE 0

\* the start and stop of lib.rs's find_span: s.chars().enumerate() numbers
\* the characters, so start and stop are character indices, except that
\* stop is s.len(), a byte length, when the digits run to the end
find_span_indices(s, D) ==
    LET f == first_digit(s, D)
        e == first_non_digit_after(s, D, f)
    IN  IF f = 0
        THEN [none |-> TRUE, start |-> 0, stop |-> 0]
        ELSE [none  |-> FALSE,
              start |-> f - 1,
              stop  |-> IF e # 0 THEN e - 1 ELSE str_len(s)]

\* a find_span that hands the digit-free input back as the suffix
find_span_suffix(s, D) ==
    LET ix == find_span_indices(s, D)
    IN  IF ix.none THEN Span(<<>>, <<>>, s)
        ELSE IF slices_ok(s, ix.start, ix.stop)
        THEN Span(slice(s, 0, ix.start), slice(s, ix.start, ix.stop),
                  slice(s, ix.stop, str_len(s)))
        ELSE NoSpan

\* (&s[.. start], &s[start .. stop], &s[stop ..]): start and stop are used
\* as byte offsets
find_span(s, D) ==
    LET ix == find_span_indices(s, D)
    IN  IF ix.none THEN Span(s, <<>>, <<>>)
        ELSE IF slices_ok(s, ix.start, ix.stop)
        THEN Span(slice(s, 0, ix.start), slice(s, ix.start, ix.stop),
                  slice(s, ix.stop, str_len(s)))
        ELSE NoSpan

\* the loop of insert_separator_rev with the group list never advanced
RECURSIVE insert_loop_stuck(_, _, _, _, _)
insert_loop_stuck(rest, sep, groups, counter, buffer) ==
    IF rest = <<>> THEN buffer
    ELSE LET hit == groups # <<>> /\ counter = groups[1]
             buffer1  == IF hit THEN Append(buffer, sep) ELSE buffer
             counter1 == IF hit THEN 0 ELSE counter
         IN  insert_loop_stuck(Tail(rest), sep, groups, counter1 + 1,
                               Append(buffer1, Head(rest)))

\* the loop of insert_separator_rev: rest is what number.chars().rev() has
\* still to give.  counter is a u8: under positive group sizes it never
\* exceeds the current size; under an empty list or a zero size it counts
\* the digits and would overflow at 256 of them, beyond the runs modelled.
RECURSIVE insert_loop(_, _, _, _, _)
insert_loop(rest, sep, groups, counter, buffer) ==
    IF rest = <<>> THEN buffer
    ELSE LET hit == groups # <<>> /\ counter = groups[1]
             buffer1  == IF hit THEN Append(buffer, sep) ELSE buffer
             counter1 == IF hit THEN 0 ELSE counter
             groups1  == IF hit /\ Len(groups) > 1 THEN Tail(groups) ELSE groups
         IN  insert_loop(Tail(rest), sep, groups1, counter1 + 1,
                         Append(buffer1, Head(rest)))

insert_separator_rev(number, sep, groups) ==
    insert_loop(rev(number), sep, groups, 0, <<>>)

\* impl<T: Display> Separable for T
separate_by_policy(original, p) ==
    LET sp == find_span(original, p.digits)
        formatted == insert_separator_rev(sp.number, p.separator, p.groups)
    IN  IF sp.panic THEN Panic
        ELSE Ok(sp.before \o rev(formatted) \o sp.after)

---------------------------------------------------------------------------
(* display.rs: find_span by byte offsets, impl Separable for str           *)

\* number_start and number_end come from char_indices(): byte offsets
str_find_span(s, D) ==
    LET f == first_digit(s, D)
        e == first_non_digit_after(s, D, f)
        number_start == byte_offset(s, f - 1)
        number_end   == number_start +
                        (IF e # 0
                         THEN byte_offset(s, e - 1) - number_start
                         ELSE str_len(s) - number_start)
    IN  IF f = 0 THEN Span(s, <<>>, <<>>)
        ELSE IF slices_ok(s, number_start, number_end)
        THEN Span(slice(s, 0, number_start), slice(s, number_start, number_end),
                  slice(s, number_end, str_len(s)))
        ELSE NoSpan

\* impl Separable for str
str_separate_by_policy(self, p) ==
    LET sp == str_find_span(self, p.digits)
        formatted == insert_separator_rev(sp.number, p.separator, p.groups)
    IN  IF sp.panic THEN Panic
        ELSE Ok(sp.before \o rev(formatted) \o sp.after)

---------------------------------------------------------------------------
(* helpers.rs: SeparatorIterator, separate_str_iter                        *)

NoIterator ==
    [panic |-> TRUE, groups |-> <<>>, repeat_groups_remaining |-> 0,
     current_group_index |-> 0, current_group_size |-> 0]

SeparatorIterator(g, r, i, c) ==
    [panic |-> FALSE, groups |-> g, repeat_groups_remaining |-> r,
     current_group_index |-> i, current_group_size |-> c]

\* plain division with remainder
floor_div_mod(n, m) ==
    IF m = 0 THEN [panic |-> TRUE, q |-> 0, r |-> 0]
    ELSE [panic |-> FALSE, q |-> n \div m, r |-> n % m]

\* (round_up / m, round_up % m + 1); dividing by zero aborts.  It is called
\* with n >= 1 only, so n + m - 1 does not underflow.
ceil_div_mod(n, m) ==
    IF m = 0 THEN [panic |-> TRUE, q |-> 0, r |-> 0]
    ELSE [panic |-> FALSE, q |-> (n + m - 1) \div m, r |-> ((n + m - 1) % m) + 1]

\* sum of the first k group sizes
RECURSIVE group_sum(_, _)
group_sum(groups, k) ==
    IF k = 0 THEN 0 ELSE group_sum(groups, k - 1) + groups[k]

\* SeparatorIterator::new; current_group_index is 0-based as in the source
SeparatorIterator_new(p, ndigits) ==
    LET groups == p.groups
        covers(k) == ndigits <= group_sum(groups, k)
    IN  IF \E k \in 1 .. Len(groups) : covers(k)
        THEN LET k == CHOOSE k \in 1 .. Len(groups) :
                        covers(k) /\ \A j \in 1 .. k - 1 : ~covers(j)
             IN  SeparatorIterator(groups, 0, k - 1,
                     ndigits - (group_sum(groups, k) - groups[k]))
        ELSE IF groups = <<>> THEN NoIterator
        ELSE LET sum == group_sum(groups, Len(groups))
                 repeat_group_len == groups[Len(groups)]
                 digits_remaining == ndigits - sum
                 dm == ceil_div_mod(digits_remaining, repeat_group_len)
             IN  IF dm.panic THEN NoIterator
                 ELSE SeparatorIterator(groups, dm.q, Len(groups) - 1, dm.r)

\* a next() that asks for a separator after the last digit as well
SeparatorIterator_next_trailing(self) ==
    IF self.current_group_size = 0
    THEN [item |-> "None", self |-> self]
    ELSE LET size == self.current_group_size - 1
             shrunk == [self EXCEPT !.current_group_size = size]
         IN  IF size > 0 THEN [item |-> "Some(false)", self |-> shrunk]
             ELSE IF self.repeat_groups_remaining >= 1
             THEN [item |-> "Some(true)",
                   self |-> [shrunk EXCEPT
                       !.repeat_groups_remaining = @ - 1,
                       !.current_group_size =
                           self.groups[self.current_group_index + 1]]]
             ELSE IF self.current_group_index >= 1
             THEN [item |-> "Some(true)",
                   self |-> [shrunk EXCEPT
                       !.current_group_index = @ - 1,
                       !.current_group_size =
                           self.groups[self.current_group_index]]]
             ELSE [item |-> "Some(true)", self |-> shrunk]

\* Iterator::next: the item returned and the iterator afterwards
SeparatorIterator_next(self) ==
    IF self.current_group_size = 0
    THEN [item |-> "None", self |-> self]
    ELSE LET size == self.current_group_size - 1
             shrunk == [self EXCEPT !.current_group_size = size]
         IN  IF size > 0 THEN [item |-> "Some(false)", self |-> shrunk]
             ELSE IF self.repeat_groups_remaining >= 1
             THEN [item |-> "Some(true)",
                   self |-> [shrunk EXCEPT
                       !.repeat_groups_remaining = @ - 1,
                       !.current_group_size =
                           self.groups[self.current_group_index + 1]]]
             ELSE IF self.current_group_index >= 1
             THEN [item |-> "Some(true)",
                   self |-> [shrunk EXCEPT
                       !.current_group_index = @ - 1,
                       !.current_group_size =
                           self.groups[self.current_group_index]]]
             ELSE [item |-> "Some(false)", self |-> shrunk]

\* input.chars().zip(iter), collected: zip asks chars first and stops at
\* the first None of either side
RECURSIVE zip(_, _)
zip(chars, iter) ==
    IF chars = <<>> THEN <<>>
    ELSE LET n == SeparatorIterator_next(iter)
         IN  IF n.item = "None" THEN <<>>
             ELSE <<[digit |-> Head(chars), comma_after |-> n.item = "Some(true)"]>>
                  \o zip(Tail(chars), n.self)

\* separate_str_iter, as the sequence of pairs it yields
separate_str_iter(p, str) ==
    LET iter == SeparatorIterator_new(p, Len(str))
    IN  IF iter.panic THEN Panic ELSE Ok(zip(str, iter))

\* once(digit).chain(if comma_after { separator }) over the pairs
RECURSIVE flat_map(_, _)
flat_map(pairs, sep) ==
    IF pairs = <<>> THEN <<>>
    ELSE (IF Head(pairs).comma_after
          THEN <<Head(pairs).digit, sep>> ELSE <<Head(pairs).digit>>)
         \o flat_map(Tail(pairs), sep)

\* test::group_string with the policy's separator
group_string(p, digits) ==
    LET pairs == separate_str_iter(p, digits)
    IN  IF pairs.panic THEN Panic ELSE Ok(flat_map(pairs.s, p.separator))

---------------------------------------------------------------------------
(* Inputs                                                                  *)

Alphabet == {"1", "2", "-", ",", EAcute, Smiley}
Texts == UNION {[1 .. k -> Alphabet] : k \in 0 .. MaxLen}

\* the digit runs of the grouping tests: n, n-1, ..., 1
DigitChars == <<"1", "2", "3", "4", "5", "6", "7", "8", "9">>
Countdown(n) == [i \in 1 .. n |-> DigitChars[((n - i) % 9) + 1]]
FramedRuns ==
    {pre \o Countdown(n) \o suf :
        n \in 0 .. MaxRun, pre \in {<<>>, <<"-">>}, suf \in {<<>>, <<".", "5">>}}

DigitSets == {ASCII_DECIMAL, {Smiley}, ASCII_DECIMAL \cup {","}}
GroupLists == UNION {[1 .. k -> 0 .. MaxGroup] : k \in 0 .. MaxGroups}
SingleGroupLists == {g \in GroupLists : Len(g) <= 1}

Policies(lists) ==
    {[separator |-> ",", groups |-> g, digits |-> d] :
        g \in lists, d \in DigitSets}

\* every short text under the policies of at most one group size, every
\* framed digit run under every policy
Cases ==
    (Texts \X Policies(SingleGroupLists)) \cup (FramedRuns \X Policies(GroupLists))

---------------------------------------------------------------------------
(* The calls                                                               *)

Init ==
    /\ \E c \in Cases : input = c[1] /\ policy = c[2]
    /\ pc = "start"
    /\ span = Span(<<>>, <<>>, <<>>)
    /\ result = Ok(<<>>)
    /\ again = Ok(<<>>)
    /\ strResult = Ok(<<>>)
    /\ grouped = Ok(<<>>)
    /\ it = NoIterator
    /\ itBefore = NoIterator
    /\ yielded = <<>>

\* input.separate_by_policy(policy), lib.rs
Separate ==
    /\ pc = "start"
    /\ span' = find_span(input, policy.digits)
    /\ result' = separate_by_policy(input, policy)
    /\ pc' = "separated"
    /\ UNCHANGED <<input, policy, again, strResult, grouped, it, itBefore, yielded>>

\* the output separated once more; an aborted call has no output
Reseparate ==
    /\ pc = "separated"
    /\ again' = IF result.panic THEN Panic ELSE separate_by_policy(result.s, policy)
    /\ pc' = "reseparated"
    /\ UNCHANGED <<input, policy, span, result, strResult, grouped, it, itBefore, yielded>>

\* input.separate_by_policy(policy), display.rs
SeparateStr ==
    /\ pc = "reseparated"
    /\ strResult' = str_separate_by_policy(input, policy)
    /\ pc' = "str"
    /\ UNCHANGED <<input, policy, span, result, again, grouped, it, itBefore, yielded>>

\* group_string(policy.groups, input): the whole input is the digit run
GroupString ==
    /\ pc = "str"
    /\ grouped' = group_string(policy, input)
    /\ pc' = "grouped"
    /\ UNCHANGED <<input, policy, span, result, again, strResult, it, itBefore, yielded>>

\* SeparatorIterator::new(&policy, input.chars().count())
New ==
    /\ pc = "grouped"
    /\ it' = SeparatorIterator_new(policy, Len(input))
    /\ itBefore' = it'
    /\ pc' = IF it'.panic THEN "end" ELSE "iter"
    /\ UNCHANGED <<input, policy, span, result, again, strResult, grouped, yielded>>

Nones == Cardinality({i \in 1 .. Len(yielded) : yielded[i] = "None"})

\* it.next(), called until None has come MaxNone + 1 times
NextItem ==
    /\ pc = "iter"
    /\ LET n == SeparatorIterator_next(it)
       IN  /\ itBefore' = it
           /\ it' = n.self
           /\ yielded' = Append(yielded, n.item)
           /\ pc' = IF n.item = "None" /\ Nones >= MaxNone THEN "end" ELSE "iter"
    /\ UNCHANGED <<input, policy, span, result, again, strResult, grouped>>

Next == Separate \/ Reseparate \/ SeparateStr \/ GroupString \/ New \/ NextItem

Spec == Init /\ [][Next]_vars

---------------------------------------------------------------------------
(* What the properties are stated with                                     *)

Separated == pc # "start"
Positive(groups) == groups # <<>> /\ \A i \in 1 .. Len(groups) : groups[i] >= 1
IsDigitRun(s, D) == \A i \in 1 .. Len(s) : s[i] \in D

\* the split of s around its first maximal run of characters of D
FirstRun(s, D) ==
    LET I == {i \in 1 .. Len(s) : s[i] \in D}
    IN  IF I = {} THEN Span(s, <<>>, <<>>)
        ELSE LET a == CHOOSE i \in I : \A j \in I : i <= j
                 J == {j \in a .. Len(s) : \A k \in a .. j : s[k] \in D}
                 b == CHOOSE j \in J : \A k \in J : k <= j
             IN  Span(SubSeq(s, 1, a - 1), SubSeq(s, a, b), SubSeq(s, b + 1, Len(s)))

RECURSIVE Total(_)
Total(g) == IF g = <<>> THEN 0 ELSE Head(g) + Total(Tail(g))

\* the cumulative boundaries g[1], g[1]+g[2], ..., S, S+g[m], S+2*g[m], ...
Boundary(g, k) ==
    \/ \E j \in 1 .. Len(g) : k = Total(SubSeq(g, 1, j))
    \/ k > Total(g) /\ (k - Total(g)) % g[Len(g)] = 0

\* the boundaries of the groups that precede the first zero-size group
ZeroAt(g) == CHOOSE z \in 1 .. Len(g) : g[z] = 0 /\ \A j \in 1 .. z - 1 : g[j] # 0
BoundaryBeforeZero(g, k) == \E j \in 1 .. ZeroAt(g) - 1 : k = Total(SubSeq(g, 1, j))
BoundaryBelowZero(g, k) == \E j \in 1 .. ZeroAt(g) - 2 : k = Total(SubSeq(g, 1, j))

\* digits with sep after every digit that has k >= 1 digits to its right,
\* k in the set At
RECURSIVE Placed(_, _, _)
Placed(digits, sep, At) ==
    IF digits = <<>> THEN <<>>
    ELSE LET k == Len(digits) - 1
         IN  <<Head(digits)>> \o (IF k >= 1 /\ k \in At THEN <<sep>> ELSE <<>>)
             \o Placed(Tail(digits), sep, At)

\* G is the characters of digits, in order, with nothing but sep inserted
\* between them
RECURSIVE Between(_, _, _)
Between(G, digits, sep) ==
    IF digits = <<>> THEN G = <<>>
    ELSE /\ G # <<>>
         /\ \/ Head(G) = Head(digits) /\ Between(Tail(G), Tail(digits), sep)
            \/ Head(G) = sep /\ Between(Tail(G), digits, sep)
Interleaved(G, digits, sep) ==
    IF digits = <<>> THEN G = <<>>
    ELSE G # <<>> /\ Head(G) = Head(digits) /\ Between(Tail(G), Tail(digits), sep)

\* whether out is before ++ G ++ after with G the digits interleaved with sep
Framed(out, sp, sep) ==
    /\ Len(out) >= Len(sp.before) + Len(sp.after)
    /\ SubSeq(out, 1, Len(sp.before)) = sp.before
    /\ SubSeq(out, Len(out) - Len(sp.after) + 1, Len(out)) = sp.after
    /\ Interleaved(SubSeq(out, Len(sp.before) + 1, Len(out) - Len(sp.after)),
                   sp.number, sep)

\* the conditions on a split (prefix, digits, suffix) of s
IsSplit(sp, s, D) ==
    /\ ~sp.panic
    /\ sp.before \o sp.number \o sp.after = s
    /\ \A i \in 1 .. Len(sp.before) : sp.before[i] \notin D
    /\ IsDigitRun(sp.number, D)
    /\ sp.after = <<>> \/ sp.after[1] \notin D

---------------------------------------------------------------------------
(* The properties                                                          *)

C2_PrefixAndSuffixCopied ==
    Separated /\ Positive(policy.groups) =>
        /\ ~result.panic
        /\ Framed(result.s, FirstRun(input, policy.digits), policy.separator)

\* C3: for every input and digit set, find_span returns (prefix, digits,
\* suffix) with prefix ++ digits ++ suffix the input, no digit in prefix,
\* digits empty or all digits, suffix empty or starting with a non-digit.
C3_FindSpanSplits ==
    Separated => IsSplit(span, input, policy.digits)

\* C4: for every input and every policy with non-empty, all-positive
\* groups, separate_by_policy returns, and every index it slices the input
\* at lies within the input and on a character boundary.
C4_NoAbort ==
    Separated /\ Positive(policy.groups) =>
        LET ix == find_span_indices(input, policy.digits)
        IN  /\ ~result.panic
            /\ ix.none \/ (/\ ix.start <= str_len(input)
                           /\ ix.stop <= str_len(input)
                           /\ is_char_boundary(input, ix.start)
                           /\ is_char_boundary(input, ix.stop))

\* C5: separating any input under a policy whose groups list is empty
\* aborts instead of returning an output.
C5_EmptyGroupsAbort ==
    Separated /\ policy.groups = <<>> => result.panic

\* C6: an input without any character of the policy's digit set comes back
\* from find_span as (input, "", "") and from separate_by_policy unchanged,
\* for every policy with non-empty groups.
C6_NoDigitsUnchanged ==
    Separated /\ policy.groups # <<>> /\ FirstRun(input, policy.digits).number = <<>> =>
        /\ span = Span(input, <<>>, <<>>)
        /\ result = Ok(input)
        /\ str_find_span(input, policy.digits) = Span(input, <<>>, <<>>)
        /\ pc \notin {"separated", "reseparated"} => strResult = Ok(input)

C6_Witness ==
    /\ pc = "str"
    /\ policy.groups = <<3>>
    /\ policy.digits = ASCII_DECIMAL
    /\ input = <<EAcute, "-", Smiley>>
    /\ result = Ok(input)

\* C7: for non-empty, all-positive groups and n >= 0 digits, the iterator
\* built by new(policy, n) yields exactly n flags before next first returns
\* None, the last flag is false, and from then on every call of next
\* returns None and leaves the iterator as it was.
C7_IteratorYieldsNFlags ==
    pc \in {"iter", "end"} /\ Positive(policy.groups) =>
        LET n == Len(input)
        IN  /\ ~it.panic
            /\ \A i \in 1 .. Len(yielded) : yielded[i] = "None" <=> i > n
            /\ n >= 1 /\ Len(yielded) >= n => yielded[n] = "Some(false)"
            /\ yielded # <<>> /\ yielded[Len(yielded)] = "None" => it = itBefore
            /\ pc = "end" => Len(yielded) = n + MaxNone + 1

C7_Witness ==
    /\ pc = "end"
    /\ policy.groups = <<3, 2>>
    /\ input = <<"7", "6", "5", "4", "3", "2", "1">>
    /\ yielded = <<"Some(false)", "Some(true)", "Some(false)", "Some(true)",
                   "Some(false)", "Some(false)", "Some(false)",
                   "None", "None", "None">>

\* C8: for non-empty, all-positive groups and every run, the digits paired
\* in reading order with the iterator's flags, the separator emitted after
\* each digit whose flag is true, give the string that
\* insert_separator_rev's right-to-left accumulation gives once reversed.
C8_IteratorAgreesWithRev ==
    pc \in {"grouped", "iter", "end"} /\ Positive(policy.groups) =>
        grouped = Ok(rev(insert_separator_rev(input, policy.separator, policy.groups)))

C8_Witness ==
    /\ pc = "grouped"
    /\ policy.groups = <<1, 2>>
    /\ input = <<"7", "6", "5", "4", "3", "2", "1">>
    /\ grouped = Ok(<<"7", "6", ",", "5", "4", ",", "3", "2", ",", "1">>)

\* C9: under a policy with a zero entry in groups, separation aborts or
\* treats the zero-size group as endless: every digit of the run is in the
\* output, separators stand only at the boundaries of the groups before the
\* zero-size one (the one between them and the zero-size group may or may
\* not be there), and none stands at the edge of the run.
C9_ZeroGroupRejectedOrInfinite ==
    Separated /\ (\E i \in 1 .. Len(policy.groups) : policy.groups[i] = 0) =>
        \/ result.panic
        \/ LET Before == {k \in 1 .. Len(input) : BoundaryBeforeZero(policy.groups, k)}
               Below  == {k \in 1 .. Len(input) : BoundaryBelowZero(policy.groups, k)}
           IN  \/ result = Ok(span.before
                              \o Placed(span.number, policy.separator, Before)
                              \o span.after)
               \/ result = Ok(span.before
                              \o Placed(span.number, policy.separator, Below)
                              \o span.after)

\* C10: under a policy with one positive group size whose separator is not
\* in its digit set, separating the output of separate_by_policy again
\* returns that output unchanged.
C10_Idempotent ==
    /\ pc \notin {"start", "separated"}
    /\ Len(policy.groups) = 1 /\ Positive(policy.groups)
    /\ policy.separator \notin policy.digits
    /\ ~result.panic
    => again = result

---------------------------------------------------------------------------
(* display.rs and helpers.rs against the same statements                   *)

\* display.rs's find_span, which takes its offsets from char_indices(),
\* finds the first maximal digit run of every input, and the str
\* implementation built on it returns prefix ++ G ++ suffix and is
\* idempotent for one positive group size.
StrImplSound ==
    /\ str_find_span(input, policy.digits) = FirstRun(input, policy.digits)
    /\ IsSplit(str_find_span(input, policy.digits), input, policy.digits)
    /\ pc \in {"str", "grouped", "iter", "end"} =>
        /\ ~strResult.panic
        /\ Positive(policy.groups) =>
            Framed(strResult.s, FirstRun(input, policy.digits), policy.separator)
        /\ Len(policy.groups) = 1 /\ Positive(policy.groups)
           /\ policy.separator \notin policy.digits =>
            str_separate_by_policy(strResult.s, policy) = strResult

\* SeparatorIterator::new aborts on an empty groups list whatever the digit
\* count: .expect("must provide at least one group")
NewRejectsEmptyGroups ==
    pc \in {"iter", "end"} /\ policy.groups = <<>> => it.panic

====
